---- MODULE Spec2Model ----
(***************************************************************************)
(* A model of whispertest2.py: the SimpleRealtimeWhisper controller        *)
(* (start_recording / stop_recording), the PortAudio capture callback      *)
(* (audio_callback), the background worker (process_audio_thread), the     *)
(* per-chunk conversion (process_audio) and main().                        *)
(*                                                                         *)
(* Audio bytes are not stored one by one.  Every byte a capture callback   *)
(* admits (its test of is_recording passed) is named by its position among *)
(* all bytes admitted so far, and a byte string is a sequence of runs      *)
(* <<lo, hi>> standing for the bytes lo .. hi-1, adjacent runs merged.     *)
(* Two byte strings are equal exactly when they hold the same bytes in the *)
(* same order.                                                             *)
(***************************************************************************)
EXTENDS Integers, Sequences, FiniteSets, TLC

\* ------------------------------------------------------------ configuration

CHUNK == 1024

CHANNELS == 1

RATE == 16000

\* pyaudio.paInt16: two bytes per sample (np.int16 in process_audio).
SampleWidth == 2

\* chunk_duration = 3.0 of process_audio_thread, in seconds.
ChunkDuration == 3

\* The floor of process_audio: RATE * 1.0 samples.
MinSeconds == 1

\* chunk_size = int(self.RATE * chunk_duration): a count of samples, which
\* the worker compares with len(audio_chunk), a count of bytes.
chunk_size == RATE * ChunkDuration

\* The bytes of one capture callback: frames_per_buffer frames of CHANNELS
\* samples of paInt16.
FrameBytes == CHUNK * CHANNELS * SampleWidth

\* ------------------------------------------------------------------- bounds

\* Frames of FrameBytes bytes the callbacks admit in a run of main().
MaxFrames == 72

\* Frames the callbacks admit when a client drives the controller: fewer
\* than fill a chunk.
MaxClientFrames == 1

\* Frames the queue holds at once (the queue itself is unbounded).
MaxQueue == 2

\* Method calls a client makes on one controller.
MaxCalls == 3

\* Calls of process_audio a unit client makes.
MaxUnitCalls == 2

\* Frames' worth of bytes the callback admits in a session that is stopped.
MaxStopFrames == 40

\* --------------------------------------------------------------- byte strings

Empty == << >>

Run(lo, hi) == << lo, hi >>

\* in_data: the n bytes admitted after the first `at` bytes.
Frame(at, n) == IF n = 0 THEN Empty ELSE << Run(at, at + n) >>

\* len(bs)
RECURSIVE ByteLen(_)
ByteLen(bs) ==
  IF bs = Empty THEN 0 ELSE (bs[1][2] - bs[1][1]) + ByteLen(Tail(bs))

\* a + b
Cat(a, b) ==
  IF a = Empty THEN b
  ELSE IF b = Empty THEN a
  ELSE LET l == a[Len(a)]
           f == b[1]
       IN IF l[2] = f[1]
          THEN SubSeq(a, 1, Len(a) - 1) \o << Run(l[1], f[2]) >> \o Tail(b)
          ELSE a \o b

\* bs[:n]
RECURSIVE Take(_, _)
Take(bs, n) ==
  IF n <= 0 \/ bs = Empty THEN Empty
  ELSE LET r == bs[1]
           w == r[2] - r[1]
       IN IF w <= n THEN Cat(<< r >>, Take(Tail(bs), n - w))
          ELSE << Run(r[1], r[1] + n) >>

\* bs[n:]
RECURSIVE Drop(_, _)
Drop(bs, n) ==
  IF bs = Empty THEN Empty
  ELSE IF n <= 0 THEN bs
  ELSE LET r == bs[1]
           w == r[2] - r[1]
       IN IF w <= n THEN Drop(Tail(bs), n - w)
          ELSE << Run(r[1] + n, r[2]) >> \o Tail(bs)

RECURSIVE CatAll(_)
CatAll(seq) == IF seq = << >> THEN Empty ELSE Cat(seq[1], CatAll(Tail(seq)))

\* ------------------------------------------------------------------- text
\* A text is a sequence of characters.

Sp == " "

RECURSIVE LStrip(_)
LStrip(t) == IF t # << >> /\ t[1] = Sp THEN LStrip(Tail(t)) ELSE t

RECURSIVE RStrip(_)
RStrip(t) ==
  IF t # << >> /\ t[Len(t)] = Sp THEN RStrip(SubSeq(t, 1, Len(t) - 1)) ELSE t

\* str.strip()
Strip(t) == RStrip(LStrip(t))

\* The loop of process_audio over the segments:
\* text += segment.text.strip() + " ", for every segment whose stripped text
\* is not empty.
RECURSIVE Collect(_, _)
Collect(segments, text) ==
  IF segments = << >> THEN text
  ELSE Collect(Tail(segments),
               IF Strip(segments[1]) # << >>
               THEN text \o Strip(segments[1]) \o << Sp >>
               ELSE text)

\* What model.transcribe does with one waveform: it raises, or it yields a
\* sequence of segment texts.
Raises == [raises |-> TRUE, segments |-> << >>]

Yields(segments) == [raises |-> FALSE, segments |-> segments]

ServiceOutcomes ==
  { Raises,
    Yields(<< >>),
    Yields(<< << Sp >> >>),
    Yields(<< << Sp, "h", "i", Sp >> >>),
    Yields(<< << "a", Sp >>, << Sp, Sp >>, << "b" >> >>) }

\* The outcome given to a call that never reaches the service.
NoOutcome == Yields(<< >>)

\* ------------------------------------------------------------ process_audio

None == [none |-> TRUE, text |-> << >>]

Text(t) == [none |-> FALSE, text |-> t]

\* np.frombuffer(audio_data, dtype=np.int16) raises ValueError unless the
\* buffer is a whole number of int16 samples.
FromBufferRaises(nbytes) == nbytes % SampleWidth # 0

\* len(audio_float)
SampleCount(nbytes) == nbytes \div SampleWidth

\* The floor taken on the byte count instead of the sample count.
TooShortInBytes(nbytes) == nbytes < RATE * MinSeconds

\* if len(audio_float) < self.RATE * 1.0: return None
TooShort(nbytes) == SampleCount(nbytes) < RATE * MinSeconds

\* Whether process_audio(audio_data) gets as far as self.model.transcribe.
ReachesService(nbytes) == ~FromBufferRaises(nbytes) /\ ~TooShort(nbytes)

\* return str(e): the error message returned as if it were the transcript.
OnServiceErrorText == Text(<< "e", "r", "r" >>)

\* The value returned when the try block raises: the except clause prints
\* the error and returns None.
OnServiceError == None

\* process_audio(audio_data) for len(audio_data) = nbytes, the service
\* answering with outcome o: whether transcribe was invoked, whether the
\* except clause printed an error, and the value returned.
ProcessAudio(nbytes, o) ==
  IF FromBufferRaises(nbytes)
  THEN [invoked |-> FALSE, logged |-> TRUE, result |-> None]
  ELSE IF TooShort(nbytes)
  THEN [invoked |-> FALSE, logged |-> FALSE, result |-> None]
  ELSE IF o.raises
  THEN [invoked |-> TRUE, logged |-> TRUE, result |-> OnServiceError]
  ELSE [invoked |-> TRUE, logged |-> FALSE,
        result |-> Text(Strip(Collect(o.segments, << >>)))]

\* if text is not None: an empty transcript is printed too.
TruthyNotNone(r) == ~r.none

\* if text:
Truthy(r) == ~r.none /\ r.text # << >>

\* ------------------------------------------------------------------ state

VARIABLES
  main_pc,       \* where main() is: "new", "in_start", "wait", "finally",
                 \* "in_stop", "done", "exited"; "client" and "unit" when a
                 \* client other than main() drives the object
  whisper,       \* 'whisper' in locals(): the constructor has returned
  exit_code,     \* the exit status of the process, -1 while it runs
  calls,         \* the methods called on the controller, in order, each
                 \* with how it ended: "run" (not yet), "ok" or "exc"
  ctl_pc,        \* the statement of start_recording / stop_recording the
                 \* calling thread is at, "none" outside both
  ctl_ret,       \* how the last call ended: "ok" or "exc"
  waited,        \* main() has entered its wait loop
  exit_by,       \* what took main() out of its try block: "interrupt",
                 \* "error", or "" while it is inside
  is_recording,  \* self.is_recording
  self_p,        \* self.p: a PyAudio handle, 0 while the attribute is unset
  self_stream,   \* self.stream: a stream, 0 while the attribute is unset
  handles,       \* every PyAudio handle created: "live" or "terminated"
  streams,       \* every stream opened: its state and its callback thread
  admitted,      \* bytes the callbacks have admitted so far
  queue,         \* self.audio_buffer
  workers,       \* every process_audio_thread started
  enq,           \* the bytes put on the queue so far, in order
  off_puts,      \* frames put on the queue while is_recording was false
  chunks,        \* every process_data sliced so far, with its worker
  svc_calls,     \* every call of model.transcribe, with its outcome
  printed,       \* every transcript line printed
  err_log,       \* the chunks for which process_audio printed an error
  log,           \* the audio-source methods invoked, each with the number
                 \* of the controller call that invoked it
  unit           \* the process_audio calls of a unit client, with results

vars ==
  << main_pc, whisper, exit_code, waited, exit_by, calls, ctl_pc, ctl_ret,
     is_recording,
     self_p, self_stream, handles, streams, admitted, queue, workers, enq,
     off_puts,
     chunks, svc_calls, printed, err_log, log, unit >>

mainVars == << main_pc, whisper, exit_code, waited, exit_by >>

objVars == << is_recording, self_p, self_stream, handles >>

histVars == << chunks, svc_calls, printed, err_log >>

\* An external call returns or raises.
CallOutcomes == { "ok", "raise" }

Alive == main_pc # "exited"

\* The controller as constructed by __init__, no method called yet.
Constructed ==
  /\ calls = << >>
  /\ ctl_pc = "none"
  /\ ctl_ret = "ok"
  /\ is_recording = FALSE
  /\ self_p = 0
  /\ self_stream = 0
  /\ handles = << >>
  /\ streams = << >>
  /\ admitted = 0
  /\ queue = << >>
  /\ workers = << >>
  /\ enq = Empty
  /\ off_puts = 0
  /\ chunks = << >>
  /\ svc_calls = << >>
  /\ printed = << >>
  /\ err_log = << >>
  /\ log = << >>
  /\ unit = << >>

\* main() is entered.
Init ==
  /\ main_pc = "new"
  /\ whisper = FALSE
  /\ exit_code = -1
  /\ waited = FALSE
  /\ exit_by = ""
  /\ Constructed

Logged(ev) == Append(log, << ev, Len(calls) >>)

\* A method is called on the controller.
Call(op, first) ==
  /\ calls' = Append(calls, [op |-> op, ret |-> "run"])
  /\ ctl_pc' = first

\* The calling thread leaves the method it is in.
Return(how) ==
  /\ ctl_pc' = "none"
  /\ ctl_ret' = how
  /\ calls' = [calls EXCEPT ![Len(calls)].ret = how]

\* The calling thread stays in the method.
Goto(pc) ==
  /\ ctl_pc' = pc
  /\ UNCHANGED << ctl_ret, calls >>

\* --------------------------------------------------------- start_recording

NewStream(p) ==
  [st |-> "active", owner |-> p, cb |-> "idle", held |-> Empty]

\* idle: the worker's last test of the queue found it empty and the worker
\* has not slept since.
NewWorker ==
  [pc |-> "loop", audio_chunk |-> Empty, process_data |-> Empty,
   cur |-> 0, fed |-> Empty, sliced |-> 0, idle |-> FALSE]

\* self.p = pyaudio.PyAudio()
StartPyAudio(r) ==
  /\ ctl_pc = "s_pyaudio"
  /\ log' = Logged("PyAudio")
  /\ IF r = "ok"
     THEN /\ handles' = Append(handles, "live")
          /\ self_p' = Len(handles) + 1
          /\ Goto("s_open")
     ELSE /\ Return("exc")
          /\ UNCHANGED << handles, self_p >>
  /\ UNCHANGED << mainVars, is_recording, self_stream, streams, admitted,
                  queue, workers, enq, off_puts, histVars, unit >>

\* self.stream = self.p.open(..., stream_callback=self.audio_callback):
\* PyAudio starts a stream as it opens it (start=True is the default).
StartOpen(r) ==
  /\ ctl_pc = "s_open"
  /\ log' = Logged("open")
  /\ IF r = "ok"
     THEN /\ streams' = Append(streams, NewStream(self_p))
          /\ self_stream' = Len(streams) + 1
          /\ Goto("s_flag")
     ELSE /\ Return("exc")
          /\ UNCHANGED << streams, self_stream >>
  /\ UNCHANGED << mainVars, is_recording, self_p, handles, admitted, queue,
                  workers, enq, off_puts, histVars, unit >>

\* self.is_recording = True
StartSetFlag ==
  /\ ctl_pc = "s_flag"
  /\ is_recording' = TRUE
  /\ log' = Logged("set_flag")
  /\ Goto("s_start")
  /\ UNCHANGED << mainVars, self_p, self_stream, handles, streams, admitted,
                  queue, workers, enq, off_puts, histVars, unit >>

\* self.stream.start_stream()
StartStream(r) ==
  /\ ctl_pc = "s_start"
  /\ log' = Logged("start_stream")
  /\ IF r = "ok"
     THEN /\ streams' =
               [streams EXCEPT ![self_stream].st =
                  IF @ = "stopped" THEN "active" ELSE @]
          /\ Goto("s_spawn")
     ELSE /\ Return("exc")
          /\ UNCHANGED streams
  /\ UNCHANGED << mainVars, objVars, admitted, queue, workers, enq, off_puts,
                  histVars, unit >>

\* self.process_thread = threading.Thread(..., daemon=True); .start()
StartSpawn ==
  /\ ctl_pc = "s_spawn"
  /\ workers' = Append(workers, NewWorker)
  /\ log' = Logged("spawn")
  /\ Return("ok")
  /\ UNCHANGED << mainVars, objVars, streams, admitted, queue, enq, off_puts,
                  histVars, unit >>

\* ---------------------------------------------------------- stop_recording

\* stop_recording without its hasattr tests.
AfterClearFlagUnguarded(stream, p) == "t_stop"

\* stop_recording releasing the handle before the stream.
AfterClearFlagHandleFirst(stream, p) ==
  IF p # 0 THEN "t_term" ELSE IF stream # 0 THEN "t_stop" ELSE "none"

\* stop_recording with the test of 'p' nested under the test of 'stream':
\* without a stream the handle is never terminated.
AfterClearFlagStreamOnly(stream, p) ==
  IF stream # 0 THEN "t_stop" ELSE "none"

\* Where stop_recording goes after "self.is_recording = False":
\* if hasattr(self, 'stream'), then if hasattr(self, 'p'); "none" is the
\* return.
AfterClearFlag(stream, p) ==
  IF stream # 0 THEN "t_stop" ELSE IF p # 0 THEN "t_term" ELSE "none"

\* After self.stream.stop_stream().
AfterStopStream == "t_close"

\* After self.stream.close(): if hasattr(self, 'p').
AfterClose(p) == IF p # 0 THEN "t_term" ELSE "none"

\* The calling thread goes on to statement pc of the method, or returns.
Continue(pc) == IF pc = "none" THEN Return("ok") ELSE Goto(pc)

\* self.is_recording = False
StopClearFlag ==
  /\ ctl_pc = "t_flag"
  /\ is_recording' = FALSE
  /\ log' = Logged("clear_flag")
  /\ Continue(AfterClearFlag(self_stream, self_p))
  /\ UNCHANGED << mainVars, self_p, self_stream, handles, streams, admitted,
                  queue, workers, enq, off_puts, histVars, unit >>

\* self.stream.stop_stream(): PortAudio lets a running callback return
\* before it stops the stream.  Without the attribute the statement raises
\* AttributeError.
StopStopStream(r) ==
  /\ ctl_pc = "t_stop"
  /\ IF self_stream = 0
     THEN /\ Return("exc")
          /\ UNCHANGED << streams, log >>
     ELSE /\ streams[self_stream].cb = "idle"
          /\ log' = Logged("stop_stream")
          /\ IF r = "ok"
             THEN /\ streams' =
                       [streams EXCEPT ![self_stream].st =
                          IF @ = "active" THEN "stopped" ELSE @]
                  /\ Continue(AfterStopStream)
             ELSE /\ Return("exc")
                  /\ UNCHANGED streams
  /\ UNCHANGED << mainVars, objVars, admitted, queue, workers, enq, off_puts,
                  histVars, unit >>

\* self.stream.close()
StopClose(r) ==
  /\ ctl_pc = "t_close"
  /\ IF self_stream = 0
     THEN /\ Return("exc")
          /\ UNCHANGED << streams, log >>
     ELSE /\ streams[self_stream].cb = "idle"
          /\ log' = Logged("close")
          /\ IF r = "ok"
             THEN /\ streams' = [streams EXCEPT ![self_stream].st = "closed"]
                  /\ Continue(AfterClose(self_p))
             ELSE /\ Return("exc")
                  /\ UNCHANGED streams
  /\ UNCHANGED << mainVars, objVars, admitted, queue, workers, enq, off_puts,
                  histVars, unit >>

\* self.p.terminate(): PyAudio closes the streams the handle still owns.
StopTerminate(r) ==
  /\ ctl_pc = "t_term"
  /\ IF self_p = 0
     THEN /\ Return("exc")
          /\ UNCHANGED << handles, streams, log >>
     ELSE /\ \A s \in DOMAIN streams :
               streams[s].owner = self_p => streams[s].cb = "idle"
          /\ log' = Logged("terminate")
          /\ IF r = "ok"
             THEN /\ handles' = [handles EXCEPT ![self_p] = "terminated"]
                  /\ streams' =
                       [s \in DOMAIN streams |->
                          IF streams[s].owner = self_p
                          THEN [streams[s] EXCEPT !.st = "closed"]
                          ELSE streams[s]]
                  /\ Return("ok")
             ELSE /\ Return("exc")
                  /\ UNCHANGED << handles, streams >>
  /\ UNCHANGED << mainVars, is_recording, self_p, self_stream, admitted,
                  queue, workers, enq, off_puts, histVars, unit >>

\* ----------------------------------------------------------- audio_callback

\* Frames that callbacks hold between the test and the put.
RECURSIVE Held(_)
Held(ss) ==
  IF ss = << >> THEN 0
  ELSE (IF ss[1].cb = "put" THEN 1 ELSE 0) + Held(Tail(ss))

\* if self.is_recording:
CallbackAdmits(flag) == flag

\* PortAudio calls audio_callback(in_data, ...) on the thread of stream s
\* with n bytes: the test of self.is_recording.  A frame that fails the test
\* is dropped and leaves no trace.  limit bounds the bytes admitted.
CallbackEnter(s, n, limit) ==
  /\ Alive
  /\ streams[s].st = "active"
  /\ streams[s].cb = "idle"
  /\ admitted + n <= limit
  /\ Len(queue) + Held(streams) < MaxQueue
  /\ IF CallbackAdmits(is_recording)
     THEN /\ streams' = [streams EXCEPT ![s].cb = "put",
                                        ![s].held = Frame(admitted, n)]
          /\ admitted' = admitted + n
     ELSE UNCHANGED << streams, admitted >>
  /\ UNCHANGED << mainVars, calls, ctl_pc, ctl_ret, objVars, queue, workers,
                  enq, off_puts, histVars, log, unit >>

\* self.audio_buffer.put(in_data); return (in_data, pyaudio.paContinue)
CallbackPut(s) ==
  /\ Alive
  /\ streams[s].cb = "put"
  /\ queue' = Append(queue, streams[s].held)
  /\ enq' = Cat(enq, streams[s].held)
  /\ off_puts' = IF is_recording THEN off_puts ELSE off_puts + 1
  /\ streams' = [streams EXCEPT ![s].cb = "idle", ![s].held = Empty]
  /\ UNCHANGED << mainVars, calls, ctl_pc, ctl_ret, objVars, workers,
                  histVars, log, unit, admitted >>

\* ------------------------------------------------------ process_audio_thread

\* process_data = audio_chunk[:chunk_size]
SliceHead(buf) == Take(buf, chunk_size)

\* audio_chunk = b"": the remainder thrown away.
SliceRestDropsAll(buf) == Empty

\* audio_chunk = audio_chunk[chunk_size + 1:]: one byte too many removed.
SliceRestOffByOne(buf) == Drop(buf, chunk_size + 1)

\* audio_chunk = audio_chunk[chunk_size:]
SliceRest(buf) == Drop(buf, chunk_size)

\* if len(audio_chunk) >= chunk_size:
Enough(buf) == ByteLen(buf) >= chunk_size

\* Where the worker goes once process_audio has returned r: back to the
\* test of its loop, whatever r is.
AfterProcess(r) == "loop"

\* while True: the loop never looks at the flag.
LoopContinuesAlways(flag) == TRUE

\* The test of "while self.is_recording:".
LoopContinues(flag) == flag

\* while self.is_recording:
WorkerLoop(w) ==
  /\ Alive
  /\ workers[w].pc = "loop"
  /\ workers' = [workers EXCEPT ![w].pc =
                   IF LoopContinues(is_recording) THEN "poll" ELSE "exited"]
  /\ UNCHANGED << mainVars, calls, ctl_pc, ctl_ret, objVars, streams, queue,
                  enq, off_puts, histVars, log, unit, admitted >>

\* if not self.audio_buffer.empty():
WorkerPoll(w) ==
  /\ Alive
  /\ workers[w].pc = "poll"
  /\ workers' = [workers EXCEPT
                   ![w].pc = IF queue # << >> THEN "get" ELSE "check",
                   ![w].idle = (queue = << >>)]
  /\ UNCHANGED << mainVars, calls, ctl_pc, ctl_ret, objVars, streams, queue,
                  enq, off_puts, histVars, log, unit, admitted >>

\* get_nowait() handing out the newest frame: a LIFO queue.
GetNowaitNewest(q) ==
  [ item |-> q[Len(q)], rest |-> SubSeq(q, 1, Len(q) - 1) ]

\* self.audio_buffer.get_nowait() on a non-empty queue.Queue: the oldest
\* frame is removed and returned.
GetNowait(q) == [ item |-> Head(q), rest |-> Tail(q) ]

\* audio_chunk += self.audio_buffer.get_nowait(); when another consumer has
\* emptied the queue since the test, get_nowait raises queue.Empty and the
\* handler sleeps 0.01 s.
WorkerGet(w) ==
  /\ Alive
  /\ workers[w].pc = "get"
  /\ IF queue # << >>
     THEN /\ workers' =
               [workers EXCEPT
                  ![w].pc = "check",
                  ![w].audio_chunk = Cat(@, GetNowait(queue).item),
                  ![w].fed = Cat(@, GetNowait(queue).item)]
          /\ queue' = GetNowait(queue).rest
     ELSE /\ workers' = [workers EXCEPT ![w].pc = "loop", ![w].idle = FALSE]
          /\ UNCHANGED queue
  /\ UNCHANGED << mainVars, calls, ctl_pc, ctl_ret, objVars, streams, enq,
                  off_puts, histVars, log, unit, admitted >>

\* if len(audio_chunk) >= chunk_size: slice process_data off the front and
\* enter self.process_audio(process_data).
WorkerCheck(w) ==
  /\ Alive
  /\ workers[w].pc = "check"
  /\ IF Enough(workers[w].audio_chunk)
     THEN /\ workers' =
               [workers EXCEPT
                  ![w].pc = "process",
                  ![w].process_data = SliceHead(workers[w].audio_chunk),
                  ![w].audio_chunk = SliceRest(workers[w].audio_chunk),
                  ![w].cur = Len(chunks) + 1,
                  ![w].sliced = @ + 1]
          /\ chunks' =
               Append(chunks, [worker |-> w,
                               data |-> SliceHead(workers[w].audio_chunk)])
     ELSE /\ workers' = [workers EXCEPT ![w].pc = "loop"]
          /\ UNCHANGED chunks
  /\ UNCHANGED << mainVars, calls, ctl_pc, ctl_ret, objVars, streams, queue,
                  enq, off_puts, svc_calls, printed, err_log, log, unit,
                  admitted >>

\* text = self.process_audio(process_data); if text: print the line.
WorkerProcess(w, o) ==
  /\ Alive
  /\ workers[w].pc = "process"
  /\ LET n == ByteLen(workers[w].process_data)
         k == workers[w].cur
         r == ProcessAudio(n, o)
     IN /\ o \in (IF ReachesService(n) THEN ServiceOutcomes ELSE { NoOutcome })
        /\ svc_calls' =
             IF r.invoked
             THEN Append(svc_calls,
                         [chunk |-> k, samples |-> SampleCount(n),
                          outcome |-> o])
             ELSE svc_calls
        /\ err_log' = IF r.logged THEN Append(err_log, k) ELSE err_log
        /\ printed' =
             IF Truthy(r.result)
             THEN Append(printed, [chunk |-> k, text |-> r.result.text])
             ELSE printed
  /\ workers' =
       [workers EXCEPT
          ![w].pc = AfterProcess(ProcessAudio(ByteLen(@.process_data), o)),
          ![w].process_data = Empty]
  /\ UNCHANGED << mainVars, calls, ctl_pc, ctl_ret, objVars, streams, queue,
                  enq, off_puts, chunks, log, unit, admitted >>

\* -------------------------------------------------------------------- main

\* main() without its cleanup.
FinallyStopsNever(bound) == FALSE

\* finally: if 'whisper' in locals(): whether the cleanup calls
\* whisper.stop_recording().
FinallyStops(bound) == bound

\* whisper = SimpleRealtimeWhisper(); whisper.start_recording().  The
\* constructor raises when the model fails to load: "except Exception"
\* prints the error.
MainConstruct(r) ==
  /\ main_pc = "new"
  /\ IF r = "ok"
     THEN /\ whisper' = TRUE
          /\ main_pc' = "in_start"
          /\ Call("start", "s_pyaudio")
          /\ UNCHANGED exit_by
     ELSE /\ main_pc' = "finally"
          /\ exit_by' = "error"
          /\ UNCHANGED << whisper, calls, ctl_pc >>
  /\ UNCHANGED << exit_code, waited, ctl_ret, objVars, streams, admitted,
                  queue, workers, enq, off_puts, histVars, log, unit >>

\* start_recording has returned and main() enters "while True:
\* time.sleep(0.1)", or it has raised into "except Exception".
MainStarted ==
  /\ main_pc = "in_start"
  /\ ctl_pc = "none"
  /\ IF ctl_ret = "ok"
     THEN /\ main_pc' = "wait"
          /\ waited' = TRUE
          /\ UNCHANGED exit_by
     ELSE /\ main_pc' = "finally"
          /\ exit_by' = "error"
          /\ UNCHANGED waited
  /\ UNCHANGED << whisper, exit_code, calls, ctl_pc, ctl_ret, objVars,
                  streams, admitted, queue, workers, enq, off_puts, histVars,
                  log, unit >>

\* Ctrl+C: KeyboardInterrupt is raised in the main thread, wherever inside
\* the try block it is; a method it is in is left at once.
MainInterrupt ==
  /\ main_pc \in { "new", "in_start", "wait" }
  /\ main_pc' = "finally"
  /\ exit_by' = "interrupt"
  /\ ctl_pc' = "none"
  /\ ctl_ret' = "exc"
  /\ calls' = IF calls # << >> /\ calls[Len(calls)].ret = "run"
              THEN [calls EXCEPT ![Len(calls)].ret = "exc"]
              ELSE calls
  /\ UNCHANGED << whisper, exit_code, waited, objVars, streams, admitted,
                  queue, workers, enq, off_puts, histVars, log, unit >>

\* Any other exception out of "while True: time.sleep(0.1)".
MainWaitError ==
  /\ main_pc = "wait"
  /\ main_pc' = "finally"
  /\ exit_by' = "error"
  /\ UNCHANGED << whisper, exit_code, waited, calls, ctl_pc, ctl_ret,
                  objVars, streams, admitted, queue, workers, enq, off_puts,
                  histVars, log, unit >>

\* finally: if 'whisper' in locals(): whisper.stop_recording()
MainFinally ==
  /\ main_pc = "finally"
  /\ IF FinallyStops(whisper)
     THEN /\ main_pc' = "in_stop"
          /\ Call("stop", "t_flag")
          /\ UNCHANGED exit_code
     ELSE /\ main_pc' = "done"
          /\ exit_code' = 0
          /\ UNCHANGED << calls, ctl_pc >>
  /\ UNCHANGED << whisper, waited, exit_by, ctl_ret, objVars, streams,
                  admitted, queue, workers, enq, off_puts, histVars, log,
                  unit >>

\* stop_recording has returned and main() returns, or it has raised and the
\* exception leaves main().
MainStopped ==
  /\ main_pc = "in_stop"
  /\ ctl_pc = "none"
  /\ main_pc' = "done"
  /\ exit_code' = IF ctl_ret = "ok" THEN 0 ELSE 1
  /\ UNCHANGED << whisper, waited, exit_by, calls, ctl_pc, ctl_ret, objVars,
                  streams, admitted, queue, workers, enq, off_puts, histVars,
                  log, unit >>

\* The interpreter exits: a daemon thread that still runs is cut off.
MainExit ==
  /\ main_pc = "done"
  /\ main_pc' = "exited"
  /\ workers' =
       [w \in DOMAIN workers |->
          IF workers[w].pc = "exited" THEN workers[w]
          ELSE [workers[w] EXCEPT !.pc = "killed"]]
  /\ UNCHANGED << whisper, exit_code, waited, exit_by, calls, ctl_pc,
                  ctl_ret, objVars, streams, admitted, queue, enq, off_puts,
                  histVars, log, unit >>

\* ----------------------------------------------------------------- clients

\* A client other than main() calls whisper.start_recording().
ClientStart ==
  /\ main_pc = "client"
  /\ ctl_pc = "none"
  /\ Len(calls) < MaxCalls
  /\ Call("start", "s_pyaudio")
  /\ UNCHANGED << mainVars, ctl_ret, objVars, streams, admitted, queue,
                  workers, enq, off_puts, histVars, log, unit >>

\* A client other than main() calls whisper.stop_recording().
ClientStop ==
  /\ main_pc = "client"
  /\ ctl_pc = "none"
  /\ Len(calls) < MaxCalls
  /\ Call("stop", "t_flag")
  /\ UNCHANGED << mainVars, ctl_ret, objVars, streams, admitted, queue,
                  workers, enq, off_puts, histVars, log, unit >>

\* A unit client calls whisper.process_audio(audio_data) with n bytes.
UnitProcessAudio(n, o) ==
  /\ main_pc = "unit"
  /\ Len(unit) < MaxUnitCalls
  /\ o \in (IF ReachesService(n) THEN ServiceOutcomes ELSE { NoOutcome })
  /\ LET r == ProcessAudio(n, o)
     IN /\ unit' = Append(unit, [nbytes |-> n, invoked |-> r.invoked,
                                 result |-> r.result])
        /\ svc_calls' =
             IF r.invoked
             THEN Append(svc_calls,
                         [chunk |-> 0, samples |-> SampleCount(n),
                          outcome |-> o])
             ELSE svc_calls
        /\ err_log' = IF r.logged THEN Append(err_log, 0) ELSE err_log
  /\ UNCHANGED << mainVars, calls, ctl_pc, ctl_ret, objVars, streams, queue,
                  workers, enq, off_puts, chunks, printed, log, admitted >>

\* ---------------------------------------------------------- specifications

\* The steps of start_recording and stop_recording, whoever called them.
Controller ==
  \/ \E r \in CallOutcomes : StartPyAudio(r)
  \/ \E r \in CallOutcomes : StartOpen(r)
  \/ StartSetFlag
  \/ \E r \in CallOutcomes : StartStream(r)
  \/ StartSpawn
  \/ StopClearFlag
  \/ \E r \in CallOutcomes : StopStopStream(r)
  \/ \E r \in CallOutcomes : StopClose(r)
  \/ \E r \in CallOutcomes : StopTerminate(r)

\* The worker threads, up to the call of process_audio.
Worker ==
  \/ \E w \in DOMAIN workers : WorkerLoop(w)
  \/ \E w \in DOMAIN workers : WorkerPoll(w)
  \/ \E w \in DOMAIN workers : WorkerGet(w)
  \/ \E w \in DOMAIN workers : WorkerCheck(w)

\* The call of process_audio on a sliced chunk.
Transcribe ==
  \E w \in DOMAIN workers, o \in ServiceOutcomes : WorkerProcess(w, o)

\* The program: main() with the capture device delivering frames of
\* frames_per_buffer = CHUNK frames.
Next ==
  \/ \E r \in CallOutcomes : MainConstruct(r)
  \/ MainStarted
  \/ MainInterrupt
  \/ MainWaitError
  \/ MainFinally
  \/ MainStopped
  \/ MainExit
  \/ Controller
  \/ \E s \in DOMAIN streams :
       CallbackEnter(s, FrameBytes, MaxFrames * FrameBytes)
  \/ \E s \in DOMAIN streams : CallbackPut(s)
  \/ Worker
  \/ Transcribe

Spec == Init /\ [][Next]_vars

\* A client that calls start_recording and stop_recording in any order on a
\* constructed controller.  The frames it lets the callbacks admit do not
\* fill a chunk, so no worker gets to process_audio.
InitClient ==
  /\ main_pc = "client"
  /\ whisper = TRUE
  /\ exit_code = -1
  /\ waited = FALSE
  /\ exit_by = ""
  /\ Constructed

NextClient ==
  \/ ClientStart
  \/ ClientStop
  \/ Controller
  \/ \E s \in DOMAIN streams :
       CallbackEnter(s, FrameBytes, MaxClientFrames * FrameBytes)
  \/ \E s \in DOMAIN streams : CallbackPut(s)
  \/ Worker

SpecClient == InitClient /\ [][NextClient]_vars

\* stop_recording, statement by statement.
Teardown ==
  \/ StopClearFlag
  \/ \E r \in CallOutcomes : StopStopStream(r)
  \/ \E r \in CallOutcomes : StopClose(r)
  \/ \E r \in CallOutcomes : StopTerminate(r)

\* A unit client that calls process_audio on buffers of these lengths.
UnitLengths == { 0, 1, 2048, 31998, 31999, 32000, 32001, 48000, 96000 }

InitUnit ==
  /\ main_pc = "unit"
  /\ whisper = TRUE
  /\ exit_code = -1
  /\ waited = FALSE
  /\ exit_by = ""
  /\ Constructed

NextUnit ==
  \E n \in UnitLengths, o \in ServiceOutcomes : UnitProcessAudio(n, o)

SpecUnit == InitUnit /\ [][NextUnit]_vars

\* A recording session whose capture callback is fed synthetic frames of
\* these lengths: the state main() is in once start_recording has returned.
SyntheticFrameBytes == { 16000, 32000, 36000, 96000 }

InitFeed ==
  /\ main_pc = "wait"
  /\ whisper = TRUE
  /\ exit_code = -1
  /\ waited = TRUE
  /\ exit_by = ""
  /\ calls = << [op |-> "start", ret |-> "ok"] >>
  /\ ctl_pc = "none"
  /\ ctl_ret = "ok"
  /\ is_recording = TRUE
  /\ self_p = 1
  /\ self_stream = 1
  /\ handles = << "live" >>
  /\ streams = << NewStream(1) >>
  /\ admitted = 0
  /\ queue = << >>
  /\ workers = << NewWorker >>
  /\ enq = Empty
  /\ off_puts = 0
  /\ chunks = << >>
  /\ svc_calls = << >>
  /\ printed = << >>
  /\ err_log = << >>
  /\ log = << << "PyAudio", 1 >>, << "open", 1 >>, << "set_flag", 1 >>,
              << "start_stream", 1 >>, << "spawn", 1 >> >>
  /\ unit = << >>

NextFeed ==
  \/ \E s \in DOMAIN streams, n \in SyntheticFrameBytes :
       CallbackEnter(s, n, MaxFrames * FrameBytes)
  \/ \E s \in DOMAIN streams : CallbackPut(s)
  \/ Worker
  \/ Transcribe

SpecFeed == InitFeed /\ [][NextFeed]_vars

\* ------------------------------------------------------------------ claims

\* The chunks worker w has sliced, in the order it sliced them.
RECURSIVE DataOf(_, _)
DataOf(cs, w) ==
  IF cs = << >> THEN << >>
  ELSE (IF cs[1].worker = w THEN << cs[1].data >> ELSE << >>)
         \o DataOf(Tail(cs), w)

\* Worker w is between two iterations of its loop (or has left it) and has
\* sliced off everything it can.
Drained(w) ==
  /\ workers[w].pc \in { "loop", "poll", "get", "exited" }
  /\ ByteLen(workers[w].audio_chunk) < chunk_size

\* The length the specification gives a chunk: sampleRate * channelCount *
\* bytesPerSample * windowDurationSeconds.
WindowBytes == RATE * CHANNELS * SampleWidth * ChunkDuration

\* C1: every chunk the worker slices off the accumulation buffer and hands
\* to process_audio is exactly sampleRate * channelCount * bytesPerSample *
\* windowDurationSeconds = 96000 bytes long.
C1_ChunkIsWindowBytes ==
  \A i \in DOMAIN chunks : ByteLen(chunks[i].data) = WindowBytes

\* C2: when the frames fed to a worker's accumulator add up to a multiple
\* of the chunk size and the worker has drained them, it has completed
\* total / chunk size chunks, each of exactly chunk-size bytes, and the
\* chunks concatenated in the order they were sliced are the bytes fed.
C2_Lossless ==
  \A w \in DOMAIN workers :
    (Drained(w) /\ ByteLen(workers[w].fed) % chunk_size = 0) =>
      /\ Len(DataOf(chunks, w)) * chunk_size = ByteLen(workers[w].fed)
      /\ \A i \in DOMAIN DataOf(chunks, w) :
           ByteLen(DataOf(chunks, w)[i]) = chunk_size
      /\ CatAll(DataOf(chunks, w)) = workers[w].fed

\* C2 witness: three chunks' worth of frames have been fed and drained, and
\* the three chunks sliced are the bytes fed.
C2_Witness ==
  /\ Drained(1)
  /\ ByteLen(workers[1].fed) = 3 * chunk_size
  /\ Len(DataOf(chunks, 1)) = 3
  /\ CatAll(DataOf(chunks, 1)) = workers[1].fed

\* C3: in every reachable state the accumulator holds the bytes appended so
\* far less chunk size bytes for every chunk sliced so far.
C3_Accounting ==
  \A w \in DOMAIN workers :
    ByteLen(workers[w].audio_chunk) =
      ByteLen(workers[w].fed) - workers[w].sliced * chunk_size

\* C3 witness: a chunk has been sliced and a remainder was kept.
C3_Witness ==
  \E w \in DOMAIN workers :
    /\ workers[w].sliced >= 1
    /\ workers[w].audio_chunk # Empty
    /\ workers[w].pc = "loop"

\* C4: process_audio never passes less than one second of audio (fewer than
\* RATE samples) to model.transcribe, and returns None for it.
C4_ShortNeverTranscribed ==
  /\ \A i \in DOMAIN unit :
       unit[i].nbytes < RATE * SampleWidth =>
         ~unit[i].invoked /\ unit[i].result = None
  /\ \A i \in DOMAIN svc_calls : svc_calls[i].samples >= RATE

\* C4 witness: a buffer one sample short of a second was refused after a
\* buffer of exactly one second was transcribed.
C4_Witness ==
  /\ Len(unit) = 2
  /\ unit[1].nbytes = 32000 /\ unit[1].invoked
  /\ unit[2].nbytes = 31998 /\ ~unit[2].invoked /\ unit[2].result = None

\* The audio-source and flag events controller call k has logged.
RECURSIVE EventsOf(_, _)
EventsOf(lg, k) ==
  IF lg = << >> THEN << >>
  ELSE (IF lg[1][2] = k THEN << lg[1][1] >> ELSE << >>)
         \o EventsOf(Tail(lg), k)

Releases == { "stop_stream", "close", "terminate" }

StreamMethods == { "start_stream", "stop_stream", "close" }

\* Event ev is in the log before position j.
Before(ev, j) == \E i \in 1 .. (j - 1) : log[i][1] = ev

\* How many calls of stop_recording have been made.
Stops == Cardinality({ k \in DOMAIN calls : calls[k].op = "stop" })

\* C5: when stop_recording is called twice in succession after a successful
\* start_recording, the second call does not raise and invokes none of
\* stream.stop_stream, stream.close and p.terminate again.
C5_SecondStopReleasesNothing ==
  \A k \in DOMAIN calls :
    ( /\ k >= 3
      /\ calls[k - 2] = [op |-> "start", ret |-> "ok"]
      /\ calls[k - 1] = [op |-> "stop", ret |-> "ok"]
      /\ calls[k].op = "stop" ) =>
        /\ calls[k].ret # "exc"
        /\ \A i \in DOMAIN log : log[i][2] = k => log[i][1] \notin Releases

\* C6: stop_recording on a controller on which start_recording was never
\* called returns normally, leaves is_recording false and invokes no
\* audio-source method.
C6_StopBeforeStart ==
  \A k \in DOMAIN calls :
    ( /\ calls[k].op = "stop"
      /\ \A j \in 1 .. (k - 1) : calls[j].op # "start" ) =>
        /\ calls[k].ret # "exc"
        /\ \A i \in DOMAIN log : log[i][2] = k => log[i][1] = "clear_flag"
        /\ (k = Len(calls) /\ calls[k].ret = "ok") => ~is_recording

\* C6 witness: the first call on the controller was stop_recording and it
\* has returned.
C6_Witness ==
  /\ Len(calls) = 1
  /\ calls[1] = [op |-> "stop", ret |-> "ok"]
  /\ ~is_recording
  /\ EventsOf(log, 1) = << "clear_flag" >>

\* C7: once main() has entered its wait loop, stop_recording is called
\* exactly once on the way out, whatever exception ended the loop, and not
\* before.
C7_StopExactlyOnce ==
  waited =>
    /\ main_pc \in { "wait", "finally" } => Stops = 0
    /\ main_pc \in { "in_stop", "done", "exited" } => Stops = 1

\* C7 witness: the wait loop was left by an exception other than
\* KeyboardInterrupt and main() has returned after one stop_recording.
C7_Witness ==
  /\ waited
  /\ exit_by = "error"
  /\ main_pc = "done"
  /\ Stops = 1

\* C8: in stop_recording after a successful start, is_recording is cleared
\* before the stream is stopped, the stream is stopped before it is closed
\* and closed before the handle is terminated, and no stream method is
\* invoked once the handle has been terminated.
C8_StopOrder ==
  (calls # << >> /\ calls[1] = [op |-> "start", ret |-> "ok"]) =>
    /\ \A j \in DOMAIN log :
         /\ log[j][1] = "stop_stream" => Before("clear_flag", j)
         /\ log[j][1] = "close" => Before("stop_stream", j)
         /\ log[j][1] = "terminate" => Before("close", j)
         /\ log[j][1] \in StreamMethods => ~Before("terminate", j)
    /\ (\E s \in DOMAIN streams : streams[s].st # "active") => ~is_recording

\* C8 witness: stop_recording has run to its end after a successful start.
C8_Witness ==
  /\ Len(calls) = 2
  /\ calls[1] = [op |-> "start", ret |-> "ok"]
  /\ calls[2] = [op |-> "stop", ret |-> "ok"]
  /\ EventsOf(log, 2) = << "clear_flag", "stop_stream", "close", "terminate" >>

\* C9: a start_recording call on a controller that has already been started
\* (state Recording or Stopped) opens no further audio stream, spawns no
\* further worker thread and does not set is_recording.
C9_StartOnlyFromIdle ==
  \A k \in DOMAIN calls :
    ( /\ calls[k].op = "start"
      /\ \E j \in 1 .. (k - 1) : calls[j] = [op |-> "start", ret |-> "ok"] ) =>
        \A i \in DOMAIN log :
          log[i][2] = k => log[i][1] \notin { "open", "set_flag", "spawn" }

\* The service yielded a segment whose stripped text is not empty.
HasText(o) ==
  /\ ~o.raises
  /\ \E i \in DOMAIN o.segments : Strip(o.segments[i]) # << >>

\* C10: a chunk on which the transcription service raises gets an error
\* message and no transcript line; the worker does not leave its loop for
\* it (it leaves only once is_recording is false, or is cut off when the
\* interpreter exits); and every chunk for which the service yields text,
\* a later one included, gets its transcript line.
C10_BadChunkContained ==
  /\ \A i \in DOMAIN svc_calls :
       svc_calls[i].outcome.raises =>
         /\ \A j \in DOMAIN printed : printed[j].chunk # svc_calls[i].chunk
         /\ \E j \in DOMAIN err_log : err_log[j] = svc_calls[i].chunk
  /\ \A i \in DOMAIN svc_calls :
       HasText(svc_calls[i].outcome) =>
         \E j \in DOMAIN printed : printed[j].chunk = svc_calls[i].chunk
  /\ \A w \in DOMAIN workers :
       /\ workers[w].pc = "exited" => ~is_recording
       /\ workers[w].pc = "killed" => main_pc = "exited"

\* C10 witness: the service raised on chunk 2 of 3; chunks 1 and 3 were
\* printed, chunk 2 was not, and the worker is still in its loop.
C10_Witness ==
  /\ Len(svc_calls) = 3
  /\ HasText(svc_calls[1].outcome)
  /\ svc_calls[2].outcome.raises
  /\ HasText(svc_calls[3].outcome)
  /\ Len(printed) = 2
  /\ printed[1].chunk = 1
  /\ printed[2].chunk = 3
  /\ err_log = << 2 >>
  /\ is_recording
  /\ workers[1].pc = "loop"

\* The last event controller call k has logged, "" when it has logged none.
LastEventOf(k) ==
  IF EventsOf(log, k) = << >> THEN ""
  ELSE EventsOf(log, k)[Len(EventsOf(log, k))]

\* main() has returned.
Returned == main_pc \in { "done", "exited" }

\* C11: a failure of stream.stop_stream() or stream.close() during
\* stop_recording is not re-raised: stop_recording returns normally, and in
\* main() the exception does not leave the cleanup.
C11_TeardownErrorContained ==
  /\ \A k \in DOMAIN calls :
       (calls[k].op = "stop" /\ calls[k].ret = "exc") =>
         LastEventOf(k) \notin { "stop_stream", "close" }
  /\ (Returned /\ Len(calls) = 2
        /\ LastEventOf(2) \in { "stop_stream", "close" }) => exit_code = 0

\* The startup failed unrecoverably: the constructor raised, or
\* pyaudio.PyAudio() or p.open raised in start_recording.
StartupFailed ==
  /\ exit_by = "error"
  /\ \/ ~whisper
     \/ /\ calls # << >>
        /\ calls[1].ret = "exc"
        /\ LastEventOf(1) \in { "PyAudio", "open" }
        /\ self_stream = 0

\* C12: the process exits with code 0 after an interrupt and a clean
\* teardown, and with a non-zero code when the startup fails unrecoverably,
\* in which case it never enters the Recording state.
C12_ExitCodes ==
  Returned =>
    /\ ( /\ waited
         /\ exit_by = "interrupt"
         /\ calls[Len(calls)] = [op |-> "stop", ret |-> "ok"] ) =>
           exit_code = 0
    /\ StartupFailed =>
         /\ exit_code # 0
         /\ ~waited
         /\ workers = << >>
         /\ \A i \in DOMAIN log : log[i][1] # "set_flag"

\* C14: with 2048-byte frames no chunk is emitted while fewer than 192000
\* bytes have been fed (after 3 frames the buffer holds 6144 bytes and no
\* chunk exists), and once exactly 192000 bytes have been fed and consumed,
\* exactly one chunk has been emitted and the buffer holds 0 bytes.
C14_FirstChunkAtScenarioBytes ==
  \A w \in DOMAIN workers :
    /\ ByteLen(workers[w].fed) < 192000 =>
         /\ workers[w].sliced = 0
         /\ DataOf(chunks, w) = << >>
    /\ (ByteLen(workers[w].fed) = 3 * FrameBytes /\ workers[w].pc = "loop") =>
         ByteLen(workers[w].audio_chunk) = 6144
    /\ (ByteLen(workers[w].fed) = 192000
          /\ workers[w].pc = "loop") =>
         /\ workers[w].sliced = 1
         /\ ByteLen(workers[w].audio_chunk) = 0

\* C17: in every interleaving of the callback with start and stop, no frame
\* is enqueued at a moment when is_recording is false.
C17_NoPutWhileFlagClear == off_puts = 0

\* C19: a transcription call in flight when stop or main's shutdown runs
\* completes before the worker thread ends: the daemon worker is never cut
\* off in the middle of a call.
C19_InFlightCallCompletes ==
  \A w \in DOMAIN workers :
    workers[w].pc = "killed" => workers[w].process_data = Empty

\* No byte occurs twice in bs: its runs are disjoint and in rising order.
NoRepeat(bs) ==
  \A i \in DOMAIN bs :
    /\ bs[i][1] < bs[i][2]
    /\ i > 1 => bs[i - 1][2] <= bs[i][1]

\* What the worker has taken off the queue, as its outputs show it: every
\* chunk it has sliced, in order, followed by its accumulator.
Consumed(w) == Cat(CatAll(DataOf(chunks, w)), workers[w].audio_chunk)

\* C13: frames are consumed in the order the callback enqueued them and none
\* is appended twice: the sliced chunks followed by the accumulator are a
\* prefix of the concatenation of the enqueued frames, without a repeat.
C13_FifoNoDuplicate ==
  \A w \in DOMAIN workers :
    /\ Take(enq, ByteLen(Consumed(w))) = Consumed(w)
    /\ NoRepeat(Consumed(w))
    /\ Cat(workers[w].fed, CatAll(queue)) = enq

\* A chunk has been sliced, the accumulator holds a remainder, and two
\* enqueued frames are still waiting behind it.
C13_Witness ==
  /\ workers # << >>
  /\ DataOf(chunks, 1) # << >>
  /\ workers[1].audio_chunk # Empty
  /\ Len(queue) = 2
  /\ ByteLen(Consumed(1)) < ByteLen(enq)

\* The trimmed texts of the segments whose trimmed text is not empty, in
\* their original order.
RECURSIVE TrimmedNonEmpty(_)
TrimmedNonEmpty(segments) ==
  IF segments = << >> THEN << >>
  ELSE (IF Strip(Head(segments)) = << >> THEN << >>
        ELSE << Strip(Head(segments)) >>)
       \o TrimmedNonEmpty(Tail(segments))

\* The texts ts on one line, a single space between neighbours.
RECURSIVE JoinSp(_)
JoinSp(ts) ==
  IF ts = << >> THEN << >>
  ELSE IF Len(ts) = 1 THEN ts[1]
  ELSE ts[1] \o << Sp >> \o JoinSp(Tail(ts))

\* The lines printed for chunk k.
LinesOf(k) == SelectSeq(printed, LAMBDA l : l.chunk = k)

\* C15: for each chunk passed to transcription exactly one line is printed
\* if and only if the result has a segment whose trimmed text is not empty,
\* the line carrying the trimmed non-empty segment texts in their original
\* order; for an empty or whitespace-only result nothing is printed.
C15_OneLinePerSpokenChunk ==
  /\ \A i \in DOMAIN svc_calls :
       LET k == svc_calls[i].chunk
           o == svc_calls[i].outcome
           spoken == IF o.raises THEN << >> ELSE TrimmedNonEmpty(o.segments)
       IN IF spoken # << >>
          THEN /\ Len(LinesOf(k)) = 1
               /\ LinesOf(k)[1].text = JoinSp(spoken)
          ELSE LinesOf(k) = << >>
  /\ \A j \in DOMAIN printed :
       \E i \in DOMAIN svc_calls : svc_calls[i].chunk = printed[j].chunk

\* One chunk came back as "a ", "  ", "b" and was printed as "a b", another
\* came back as whitespace only and printed nothing.
C15_Witness ==
  /\ \E j \in DOMAIN printed : printed[j].text = << "a", Sp, "b" >>
  /\ \E i \in DOMAIN svc_calls :
       /\ svc_calls[i].outcome = Yields(<< << Sp >> >>)
       /\ LinesOf(svc_calls[i].chunk) = << >>

\* s is a prefix of t.
IsPrefix(s, t) == Len(s) <= Len(t) /\ SubSeq(t, 1, Len(s)) = s

\* p.open raised in start_recording, after pyaudio.PyAudio() had returned
\* the handle.
OpenFailed ==
  /\ calls # << >>
  /\ calls[1] = [op |-> "start", ret |-> "exc"]
  /\ EventsOf(log, 1) = << "PyAudio", "open" >>
  /\ self_p # 0
  /\ self_stream = 0

\* C20: when p.open raises after the PyAudio handle was created,
\* is_recording is never set, no worker is spawned, and the cleanup of main
\* calls stop_recording, which terminates the handle exactly once and
\* invokes no method of a stream.
C20_OpenFailureCleanup ==
  OpenFailed =>
    /\ ~is_recording
    /\ workers = << >>
    /\ streams = << >>
    /\ \A i \in DOMAIN log : log[i][1] \notin { "set_flag", "spawn" }
    /\ Len(calls) <= 2
    /\ IsPrefix(EventsOf(log, 2), << "clear_flag", "terminate" >>)
    /\ Returned =>
         /\ Len(calls) = 2
         /\ calls[2].op = "stop"
         /\ EventsOf(log, 2) = << "clear_flag", "terminate" >>

\* main has returned after p.open raised, the handle terminated.
C20_Witness ==
  /\ OpenFailed
  /\ Returned
  /\ calls[2] = [op |-> "stop", ret |-> "ok"]
  /\ EventsOf(log, 2) = << "clear_flag", "terminate" >>

\* Worker w tests the queue and finds it empty.
PollsEmpty(w) ==
  /\ w \in DOMAIN workers
  /\ workers[w].pc = "poll"
  /\ queue = << >>
  /\ workers'[w].pc = "check"

\* C16: a worker that found the queue empty sleeps before it looks at the
\* queue again: it never polls the empty queue twice in a row without an
\* intervening sleep.
C16_SleepBetweenEmptyPolls ==
  [][ \A w \in DOMAIN workers : PollsEmpty(w) => ~workers[w].idle ]_vars

\* A recording session that main() stops: from the state main() is in once
\* start_recording has returned, the callback is fed synthetic frames, an
\* interrupt ends the wait and the cleanup runs stop_recording.  The worker
\* thread is scheduled fairly and every call of process_audio returns.
NextStop ==
  \/ MainInterrupt
  \/ MainFinally
  \/ Teardown
  \/ MainStopped
  \/ MainExit
  \/ \E s \in DOMAIN streams, n \in SyntheticFrameBytes :
       CallbackEnter(s, n, MaxStopFrames * FrameBytes)
  \/ \E s \in DOMAIN streams : CallbackPut(s)
  \/ Worker
  \/ Transcribe

SpecStop ==
  /\ InitFeed
  /\ [][NextStop]_vars
  /\ WF_vars(Worker)
  /\ WF_vars(Transcribe)

\* stop_recording has cleared is_recording.
Stopping == \E i \in DOMAIN log : log[i][1] = "clear_flag"

\* Worker w is out of its loop: it returned, or the process ended.
Gone(w) == workers[w].pc \in { "exited", "killed" }

\* C18: once stop has cleared is_recording the worker eventually leaves its
\* loop, under fair scheduling and with every transcription call
\* returning; it starts no iteration after the clear, so it completes at
\* most the one in progress, and it leaves without passing the partial
\* buffer or a frame still in the queue to the transcription service.
C18_WorkerLeavesLoop ==
  /\ \A w \in { 1 } : Stopping ~> Gone(w)
  /\ [][ \A w \in DOMAIN workers :
           /\ (~is_recording /\ workers[w].pc = "loop") =>
                workers'[w].pc # "poll"
           /\ Gone(w) =>
                /\ DataOf(chunks', w) = DataOf(chunks, w)
                /\ svc_calls' = svc_calls
                /\ workers'[w].audio_chunk = workers[w].audio_chunk ]_vars
  /\ [](\A i \in DOMAIN svc_calls :
          svc_calls[i].samples = SampleCount(chunk_size))

\* The worker has returned from its loop after the clear, with a partial
\* buffer and a queued frame left behind and one whole chunk transcribed.
C18_Witness ==
  /\ Stopping
  /\ workers[1].pc = "exited"
  /\ workers[1].audio_chunk # Empty
  /\ ~Enough(workers[1].audio_chunk)
  /\ queue # << >>
  /\ Len(svc_calls) = 1

====
